---- MODULE Spec2Model ----
\* Model of sus.py: the CTD chemical-gene interaction report generator.
\* The script runs top to bottom once: read_csv -> rename/derive -> dropdown
\* vocabularies -> Template.render -> makedirs/open/write -> print.
\* Text is a sequence of one-character strings, so that parsing, splitting,
\* case folding, ordering and escaping are computed character by character.
EXTENDS Integers, Sequences, FiniteSets

\* ------------------------------------------------------------------ bounds
\* Largest number of lines of the input file that is explored.
MaxLines == 2

\* ------------------------------------------------------------ text (str)
\* Printable ASCII in codepoint order, codepoints 32..126 (codepoint 96, the
\* grave accent, is written "grave": the lexer does not take it in a string).
ASCII ==
    <<" ","!","\"","#","$","%","&","'","(",")","*","+",",","-",".","/","0","1","2","3",
    "4","5","6","7","8","9",":",";","<","=",">","?","@","A","B","C","D","E","F","G","H",
    "I","J","K","L","M","N","O","P","Q","R","S","T","U","V","W","X","Y","Z","[","\\",
    "]","^","_","grave","a","b","c","d","e","f","g","h","i","j","k","l","m","n","o","p","q",
    "r","s","t","u","v","w","x","y","z","{","|","}","~">>

\* ord(c)
CodePoint(c) == 31 + (CHOOSE i \in DOMAIN ASCII : ASCII[i] = c)

\* str.lower() on one character: A..Z (65..90) map to a..z, all else is kept.
LowerChar(c) ==
    LET cp == CodePoint(c)
    IN  IF cp >= 65 /\ cp <= 90 THEN ASCII[cp + 32 - 31] ELSE c

\* str.lower()
lower(s) == [ i \in DOMAIN s |-> LowerChar(s[i]) ]

\* str.startswith(prefix)
startswith(s, prefix) ==
    /\ Len(s) >= Len(prefix)
    /\ SubSeq(s, 1, Len(prefix)) = prefix

\* str.replace(old, new) for single characters
replace(s, old, new) == [ i \in DOMAIN s |-> IF s[i] = old THEN new ELSE s[i] ]

\* str.split(sep) for a one-character separator: n separators give n + 1
\* segments, so "".split("|") is [""].
split(s, sep) ==
    LET at == { i \in DOMAIN s : s[i] = sep }
        \* where the k-th separator is; 0 and Len(s) + 1 stand for the two ends
        Pos(k) == IF k = 0 THEN 0
                  ELSE IF k > Cardinality(at) THEN Len(s) + 1
                  ELSE CHOOSE p \in at : Cardinality({ q \in at : q < p }) = k - 1
    IN  [ k \in 1..(Cardinality(at) + 1) |-> SubSeq(s, Pos(k - 1) + 1, Pos(k) - 1) ]

\* str.strip() leaves nothing: every character is whitespace.
IsBlank(s) == \A i \in DOMAIN s : s[i] = " "

\* "sub in s" / s.find(sub) for a one-character sub: first index, 0 if none.
Find(s, c) ==
    IF \E i \in DOMAIN s : s[i] = c
    THEN CHOOSE i \in DOMAIN s : s[i] = c /\ \A j \in 1..(i - 1) : s[j] # c
    ELSE 0

\* The first index at or after from where s holds c; Len(s) + 1 if none.
IndexFrom(s, c, from) ==
    IF \E i \in from..Len(s) : s[i] = c
    THEN CHOOSE i \in from..Len(s) : s[i] = c /\ \A j \in from..(i - 1) : s[j] # c
    ELSE Len(s) + 1

\* Python's str comparison a < b: decided by the codepoints at the first
\* index where they differ; with none, the shorter (a proper prefix) is less.
LessStr(a, b) ==
    LET n    == IF Len(a) < Len(b) THEN Len(a) ELSE Len(b)
        diff == { i \in 1..n : a[i] # b[i] }
    IN  IF diff = {} THEN Len(a) < Len(b)
        ELSE LET i == CHOOSE d \in diff : \A e \in diff : d <= e
             IN  CodePoint(a[i]) < CodePoint(b[i])

\* --------------------------------------------------------- configuration
\* FIELD_NAMES: the 11 positional CTD columns (the file has no header).
FIELD_NAMES ==
    << "ChemicalName", "ChemicalID", "CasRN", "GeneSymbol", "GeneID",
       "GeneForms", "Organism", "OrganismID", "Interaction",
       "InteractionActions", "PubMedIDs" >>

\* read_csv(comment="#")
COMMENT == "#"
\* read_csv(sep=",")
SEP == ","
\* read_csv(quotechar='"')
QUOTECHAR == "\""

\* The missing value pandas puts in a cell; no text equals it.
NaN == <<"NaN">>

\* pandas' default na_values (keep_default_na is left on): the members that
\* matter here are the empty cell, "NA" and, for the comment check, "#NA".
NA_VALUES == { <<>>, <<"N","A">>, <<"#","N","A">> }

\* ------------------------------------------------- csv.reader (one line)
\* The reader with delimiter SEP, quotechar QUOTECHAR, doublequote on, strict
\* off, taken field by field.  A field is [field, next]: its text and the
\* index of the separator that ends it (Len(s) + 1 at the end of the line).

\* A field that opened with QUOTECHAR, from index p on, cur collected so far.
\* A doubled quote is one literal quote; a quote followed by SEP or by the end
\* of the line closes the field; a quote followed by anything else closes the
\* quoting and the text up to the next SEP is taken as it is.
RECURSIVE QuotedField(_, _, _)
QuotedField(s, p, cur) ==
    LET q   == IndexFrom(s, QUOTECHAR, p)
        got == cur \o SubSeq(s, p, q - 1)
    IN  IF q >= Len(s) THEN [ field |-> got, next |-> Len(s) + 1 ]
        ELSE IF s[q + 1] = QUOTECHAR THEN QuotedField(s, q + 2, Append(got, QUOTECHAR))
        ELSE IF s[q + 1] = SEP THEN [ field |-> got, next |-> q + 1 ]
        ELSE LET e == IndexFrom(s, SEP, q + 1)
             IN  [ field |-> got \o SubSeq(s, q + 1, e - 1), next |-> e ]

\* The field that starts at index p.  One that does not open with QUOTECHAR
\* runs to the next SEP, quotes inside it being ordinary characters.
FieldAt(s, p) ==
    IF p <= Len(s) /\ s[p] = QUOTECHAR
    THEN QuotedField(s, p + 1, <<>>)
    ELSE LET e == IndexFrom(s, SEP, p)
         IN  [ field |-> SubSeq(s, p, e - 1), next |-> e ]

RECURSIVE FieldsFrom(_, _)
FieldsFrom(s, p) ==
    LET f == FieldAt(s, p)
    IN  IF f.next > Len(s) THEN << f.field >>
        ELSE << f.field >> \o FieldsFrom(s, f.next + 1)

\* One line as its list of fields; an empty line is the empty list.
CsvFields(line) == IF line = <<>> THEN <<>> ELSE FieldsFrom(line, 1)

\* ------------------------------------ pandas python engine, line handling
\* _check_comments: the first field that holds COMMENT (and is not itself an
\* NA marker) is cut at the marker, kept only if something is left, and every
\* field after it is dropped.
RECURSIVE CheckComments(_)
CheckComments(fields) ==
    IF fields = <<>> THEN <<>>
    ELSE LET x == Head(fields)
             k == Find(x, COMMENT)
         IN  IF k = 0 \/ x \in NA_VALUES
             THEN <<x>> \o CheckComments(Tail(fields))
             ELSE IF k > 1 THEN <<SubSeq(x, 1, k - 1)>> ELSE <<>>

\* _remove_empty_lines (skip_blank_lines is left on): a line is kept when it
\* has more than one field, or one field that is not blank.
IsEmptyLine(fields) ==
    \/ Len(fields) = 0
    \/ Len(fields) = 1 /\ IsBlank(fields[1])

\* The rows the parser sees: each line split, comment-stripped, empties removed.
RECURSIVE ParsedRows(_)
ParsedRows(lines) ==
    IF lines = <<>> THEN <<>>
    ELSE LET row == CheckComments(CsvFields(Head(lines)))
         IN  (IF IsEmptyLine(row) THEN <<>> ELSE <<row>>) \o ParsedRows(Tail(lines))

\* Cell text to cell value: NA markers become NaN (na_filter is left on).
NaValue(x) == IF x \in NA_VALUES THEN NaN ELSE x

\* DataFrame.fillna("") on one cell
fillna(v) == IF v = NaN THEN <<>> ELSE v

\* Number of leading columns pandas takes as an implicit index: the first
\* row's surplus over the given names (_get_index_name, with header=None the
\* first row - or the names themselves in an empty file - decides).
ImplicitIndexCols(rows) ==
    IF rows = <<>> THEN 0
    ELSE IF Len(rows[1]) > Len(FIELD_NAMES) THEN Len(rows[1]) - Len(FIELD_NAMES)
    ELSE 0

\* One row as a record of the named columns: cells past the row's end are
\* NaN (rows with too few fields are padded), the first k cells are the index.
RowRecord(row, k) ==
    [ name \in { FIELD_NAMES[j] : j \in DOMAIN FIELD_NAMES } |->
        LET j == CHOOSE jj \in DOMAIN FIELD_NAMES : FIELD_NAMES[jj] = name
        IN  fillna(IF k + j <= Len(row) THEN NaValue(row[k + j]) ELSE NaN) ]

\* The frame built from the parsed rows.  on_bad_lines is left at "error": a
\* row longer than the expected width raises ParserError (_rows_to_cols).
FrameOf(rows) ==
    LET k      == ImplicitIndexCols(rows)
        colLen == Len(FIELD_NAMES) + k
    IN  IF \E i \in DOMAIN rows : Len(rows[i]) > colLen
        THEN [ error |-> "ParserError", df |-> <<>> ]
        ELSE [ error |-> "", df |-> [ i \in DOMAIN rows |-> RowRecord(rows[i], k) ] ]

\* read_csv refusing a source without rows, as it does when no names are given.
read_csv_EmptyDataError(lines) ==
    IF ParsedRows(lines) = <<>>
    THEN [ error |-> "EmptyDataError", df |-> <<>> ]
    ELSE FrameOf(ParsedRows(lines))

\* pd.read_csv(CTD_FILE, comment="#", header=None, names=FIELD_NAMES,
\*             dtype=str, sep=",", quotechar='"', engine='python').fillna("")
\* of a file that exists.  With names given, a source without rows is an
\* empty frame, not an error.
read_csv(lines) == FrameOf(ParsedRows(lines))

\* ------------------------------------------------------- parse_actions
INCREASES == <<"i","n","c","r","e","a","s","e","s">>
DECREASES == <<"d","e","c","r","e","a","s","e","s">>
BG_SUCCESS == <<"b","g","-","s","u","c","c","e","s","s">>
BG_DANGER == <<"b","g","-","d","a","n","g","e","r">>
BG_SECONDARY == <<"b","g","-","s","e","c","o","n","d","a","r","y">>

\* BadgeClass with the lowercasing left out.
BadgeClass_CaseSensitive(act) ==
    IF startswith(act, INCREASES) THEN BG_SUCCESS
    ELSE IF startswith(act, DECREASES) THEN BG_DANGER
    ELSE BG_SECONDARY

\* cls = 'bg-success' if la.startswith('increases') else 'bg-danger' if
\*       la.startswith('decreases') else 'bg-secondary', with la = act.lower()
BadgeClass(act) ==
    LET la == lower(act)
    IN  IF startswith(la, INCREASES) THEN BG_SUCCESS
        ELSE IF startswith(la, DECREASES) THEN BG_DANGER
        ELSE BG_SECONDARY

\* The loop of parse_actions over cell.split("|"): empty segments are skipped,
\* every other one appends {'cls': cls, 'txt': act.replace('^', ' ')}.
RECURSIVE BadgesOf(_)
BadgesOf(acts) ==
    IF acts = <<>> THEN <<>>
    ELSE IF Head(acts) = <<>> THEN BadgesOf(Tail(acts))
    ELSE << [ cls |-> BadgeClass(Head(acts)),
              txt |-> replace(Head(acts), "^", " ") ] >> \o BadgesOf(Tail(acts))

\* parse_actions splitting the cell on the caret instead of the pipe.
parse_actions_SplitOnCaret(cell) == BadgesOf(split(cell, "^"))

parse_actions(cell) == BadgesOf(split(cell, "|"))

\* ------------------------------------------------- rename and derivation
\* rename_map; a column it does not name keeps its name.
rename_map(name) ==
    CASE name = "ChemicalName"       -> "Chemical"
      [] name = "Organism"           -> "Species"
      [] name = "InteractionActions" -> "Actions"
      [] OTHER                       -> name

\* df.rename(columns=rename_map) on one row
Rename(r) ==
    [ c \in { rename_map(n) : n \in DOMAIN r } |->
        r[CHOOSE n \in DOMAIN r : rename_map(n) = c] ]

\* [pid for pid in lst if pid]
NonEmpty(lst) == SelectSeq(lst, LAMBDA pid : pid # <<>>)

\* df['Badges'] = df['Actions'].map(parse_actions)
\* df['PubMedIDs'] = df['PubMedIDs'].str.split('|').apply(...)
Derive(r) ==
    [ c \in DOMAIN r \cup {"Badges"} |->
        IF c = "Badges" THEN parse_actions(r["Actions"])
        ELSE IF c = "PubMedIDs" THEN NonEmpty(split(r["PubMedIDs"], "|"))
        ELSE r[c] ]

\* ---------------------------------------------------- dropdown values
\* Series.unique(): the values in order of first appearance.
RECURSIVE UniqueFrom(_, _)
UniqueFrom(col, seen) ==
    IF col = <<>> THEN <<>>
    ELSE IF Head(col) \in seen THEN UniqueFrom(Tail(col), seen)
    ELSE <<Head(col)>> \o UniqueFrom(Tail(col), seen \cup {Head(col)})

unique(col) == UniqueFrom(col, {})

\* sorted(): a stable insertion sort under Python's str order.
RECURSIVE InsertSorted(_, _)
InsertSorted(x, s) ==
    IF s = <<>> THEN <<x>>
    ELSE IF LessStr(x, Head(s)) THEN <<x>> \o s
    ELSE <<Head(s)>> \o InsertSorted(x, Tail(s))

RECURSIVE sorted(_)
sorted(s) ==
    IF s = <<>> THEN <<>>
    ELSE InsertSorted(s[Len(s)], sorted(SubSeq(s, 1, Len(s) - 1)))

Column(frame, name) == [ i \in DOMAIN frame |-> frame[i][name] ]

\* Vocabulary with the unique() left out.
Vocabulary_NoUnique(frame, name) == sorted(Column(frame, name))

\* sorted(df[name].unique())
Vocabulary(frame, name) == sorted(unique(Column(frame, name)))

\* ------------------------------------------------------ Template.render
\* The rendered document is the sequence of pieces the template emits: Lit is
\* a literal piece of TEMPLATE (whitespace between tags is left out), Var is
\* the text put in place of one {{ ... }}.
Lit(s) == [ lit |-> s ]
Var(t) == [ var |-> t ]

\* What {{ value }} emits.  Template(TEMPLATE) is built without autoescape,
\* and jinja2's default is autoescape off: the value's text goes out as it is.
Interpolate(value) == Var(value)

RECURSIVE Concat(_)
Concat(seqs) == IF seqs = <<>> THEN <<>> ELSE Head(seqs) \o Concat(Tail(seqs))

\* <option value="{{ chem }}">{{ chem }}</option>
OptionPieces(v) ==
    << Lit("<option value=\""), Interpolate(v), Lit("\">"), Interpolate(v),
       Lit("</option>") >>

\* <span class="badge {{ badge.cls }} me-1">{{ badge.txt }}</span>
BadgePieces(badge) ==
    << Lit("<span class=\"badge "), Interpolate(badge.cls), Lit(" me-1\">"),
       Interpolate(badge.txt), Lit("</span>") >>

\* <a href="https://pubmed.ncbi.nlm.nih.gov/{{pid}}" target="_blank">{{pid}}</a>
\* {% if not loop.last %}, {% endif %}
LinkPieces(pids, i) ==
    << Lit("<a href=\"https://pubmed.ncbi.nlm.nih.gov/"), Interpolate(pids[i]),
       Lit("\" target=\"_blank\">"), Interpolate(pids[i]), Lit("</a>") >>
    \o (IF i # Len(pids) THEN <<Lit(", ")>> ELSE <<>>)

\* {% for row in rows %} <tr> ... </tr> {% endfor %}
RowPieces(row) ==
    << Lit("<tr>"),
       Lit("<td>"), Interpolate(row["Chemical"]), Lit("</td>"),
       Lit("<td>"), Interpolate(row["Species"]), Lit("</td>"),
       Lit("<td>"), Interpolate(row["GeneSymbol"]), Lit("</td>"),
       Lit("<td>"), Interpolate(row["Interaction"]), Lit("</td>"),
       Lit("<td>") >>
    \o Concat([ i \in DOMAIN row["Badges"] |-> BadgePieces(row["Badges"][i]) ])
    \o << Lit("</td>"), Lit("<td>") >>
    \o Concat([ i \in DOMAIN row["PubMedIDs"] |-> LinkPieces(row["PubMedIDs"], i) ])
    \o << Lit("</td>"), Lit("</tr>") >>

\* tmpl.render(rows=rows, chems=chems, species_list=species_list)
Render(rows, chemValues, speciesValues) ==
    << Lit("<!doctype html><html><head>...</head><body><nav>...</nav>"),
       Lit("<select id=\"chemFilter\">"),
       Lit("<option value=\"\">All Chemicals</option>") >>
    \o Concat([ i \in DOMAIN chemValues |-> OptionPieces(chemValues[i]) ])
    \o << Lit("</select>"),
          Lit("<select id=\"spFilter\">"),
          Lit("<option value=\"\">All Species</option>") >>
    \o Concat([ i \in DOMAIN speciesValues |-> OptionPieces(speciesValues[i]) ])
    \o << Lit("</select>"),
          Lit("<table id=\"susTable\"><thead>...</thead>"),
          Lit("<tbody>") >>
    \o Concat([ i \in DOMAIN rows |-> RowPieces(rows[i]) ])
    \o << Lit("</tbody></table>"),
          Lit("<script>...</script></body></html>") >>

\* ------------------------------------------------------------ input file
\* The lines an input file is made of.
\* A comment line.
LineHeader == <<"#","h","e","a","d","e","r">>
\* A full 11-field row.
LineCaffeine ==
    <<"C","a","f","f","e","i","n","e",",","D","0","0","2","1","1","0",",","5","8","-","0",
    "8","-","2",",","C","Y","P","1","A","2",",","1","5","4","4",",","p","r","o","t","e",
    "i","n",",","H","o","m","o"," ","s","a","p","i","e","n","s",",","9","6","0","6",",",
    "i","n","c","r","e","a","s","e","s","^","a","c","t","i","v","i","t","y",",","i","n",
    "c","r","e","a","s","e","s","^","a","c","t","i","v","i","t","y","^","o","f",",","1",
    "2","3","4","5","|","6","7","8","9","0">>
\* Markup characters, a quoted comma, tokens in mixed case and with blanks,
\* empty segments.
LineMarkup ==
    <<"<","b",">",",",",",",","G","&","H",",",",",",","\"","a",",","b","\"",",",",","x",
    ">","y",",","I","n","c","r","e","a","s","e","s","^","x","|"," ","d","e","c","r","e",
    "a","s","e","s","|","|","A","F","F","E","C","T","S",",","1","|","|","2">>
\* A row of 2 fields.
LineShort == <<"Z","i","n","c",",","D","1">>
\* A row of 12 fields.
LineLong == <<"k",",","Z","i","n","c",",",",",",","g",",",",",",","R","a","t",",",",","i",",","D",
    "E","C","R","E","A","S","E","S","^","y",",","7">>
\* A comment marker inside the first field of a data row.
LineHash == <<"L","e","a","d"," ","#","2",",",",",",","g",",",",",",","R","a","t",",",",","i",",",
    "i","n","c","r","e","a","s","e","s",",","5">>
\* A comment marker after leading whitespace.
LineIndented == <<" ","#","n","o","t","e">>
\* An empty line.
LineBlank == <<>>
\* A data row whose quoted first field opens with the comment marker.
LineQuotedHash == <<"\"","#","9","\"",",","D","1",",",",","g",",",",",",","R","a","t",",",",","i",",",
    "i","n","c","r","e","a","s","e","s",",","5">>
\* An empty chemical, an NA gene symbol, a token with a trailing blank.
LineEmptyChem == <<",",",",",","N","A",",",",",",","R","a","t",",",",","i",",","d","e","c","r","e","a",
    "s","e","s","^","z"," ",",","9","|","9">>
\* A chemical that differs from another only by case; an 8-letter near miss.
LineLower == <<"c","a","f","f","e","i","n","e",",",",",",",",",",",",","H","o","m","o"," ","s","a",
    "p","i","e","n","s",",",",",",","i","n","c","r","e","a","s","e","|","I","N","C","R",
    "E","A","S","E","S","^","a",",">>

LINES ==
    { LineHeader, LineCaffeine, LineMarkup, LineShort, LineLong, LineHash,
      LineIndented, LineBlank, LineQuotedHash, LineEmptyChem, LineLower }

\* Every file of at most MaxLines lines.
FILES == UNION { [ 1..n -> LINES ] : n \in 0..MaxLines }

\* ------------------------------------------------------------ output file
\* No file at OUTPUT_HTML.
ABSENT == [ exists |-> FALSE, content |-> <<>> ]
\* The file an earlier run left at OUTPUT_HTML.
PREVIOUS == [ exists |-> TRUE, content |-> << Lit("<html>earlier report</html>") >> ]

\* Where a failing write can stop: data reaches the file in buffer-sized
\* blocks, so the file is left holding a proper prefix of the document.
WriteFaultPoints(doc) == { 0, Len(doc) \div 2 }

\* ------------------------------------------------------------------ state
VARIABLES
    inputExists,   \* CTD_FILE exists
    inputLines,    \* the lines of CTD_FILE
    dirExists,     \* OUTPUT_DIR exists
    outFile,       \* OUTPUT_HTML: [exists, content]
    before,        \* OUTPUT_DIR and OUTPUT_HTML as they were when the run began
    pc,            \* the statement the script is at
    df,            \* the DataFrame, a sequence of rows
    chems,         \* chems
    species_list,  \* species_list
    html,          \* html
    error,         \* the exception that ended the run, "" if none
    exitStatus,    \* <<>> while running, <<status>> once the process has exited
    stdout         \* the lines printed

vars ==
    << inputExists, inputLines, dirExists, outFile, before, pc, df, chems,
       species_list, html, error, exitStatus, stdout >>

Terminal == { "done", "failed" }

Init ==
    /\ inputExists \in BOOLEAN
    /\ inputLines \in (IF inputExists THEN FILES ELSE { <<>> })
    /\ outFile \in { ABSENT, PREVIOUS }
    /\ dirExists \in (IF outFile.exists THEN { TRUE } ELSE BOOLEAN)
    /\ before = [ dirExists |-> dirExists, outFile |-> outFile ]
    /\ pc = "load"
    /\ df = <<>>
    /\ chems = <<>>
    /\ species_list = <<>>
    /\ html = <<>>
    /\ error = ""
    /\ exitStatus = <<>>
    /\ stdout = <<>>

\* An uncaught exception: the traceback goes to stderr, the exit status is 1.
Raise(exc) ==
    /\ pc' = "failed"
    /\ error' = exc
    /\ exitStatus' = <<1>>

\* OpenSource taking a missing file for an empty one.
OpenSource_IgnoreMissing == ""

\* Opening CTD_FILE inside read_csv.
OpenSource == IF inputExists THEN "" ELSE "FileNotFoundError"

\* df = pd.read_csv(...).fillna("")
Load ==
    /\ pc = "load"
    /\ IF OpenSource # ""
       THEN /\ Raise(OpenSource)
            /\ UNCHANGED df
       ELSE LET r == read_csv(inputLines)
            IN  IF r.error # ""
                THEN /\ Raise(r.error)
                     /\ UNCHANGED df
                ELSE /\ df' = r.df
                     /\ pc' = "normalize"
                     /\ UNCHANGED << error, exitStatus >>
    /\ UNCHANGED << inputExists, inputLines, dirExists, outFile, before, chems,
                    species_list, html, stdout >>

\* df.rename(...); df['Badges'] = ...; df['PubMedIDs'] = ...
Normalize ==
    /\ pc = "normalize"
    /\ df' = [ i \in DOMAIN df |-> Derive(Rename(df[i])) ]
    /\ pc' = "vocab"
    /\ UNCHANGED << inputExists, inputLines, dirExists, outFile, before, chems,
                    species_list, html, error, exitStatus, stdout >>

\* chems = sorted(df['Chemical'].unique()); species_list likewise
Vocab ==
    /\ pc = "vocab"
    /\ chems' = Vocabulary(df, "Chemical")
    /\ species_list' = Vocabulary(df, "Species")
    /\ pc' = "render"
    /\ UNCHANGED << inputExists, inputLines, dirExists, outFile, before, df, html,
                    error, exitStatus, stdout >>

\* rows = df.to_dict(orient='records'); html = tmpl.render(...)
RenderDoc ==
    /\ pc = "render"
    /\ html' = Render(df, chems, species_list)
    /\ pc' = "makedirs"
    /\ UNCHANGED << inputExists, inputLines, dirExists, outFile, before, df, chems,
                    species_list, error, exitStatus, stdout >>

\* os.makedirs(OUTPUT_DIR, exist_ok=True)
MakeDirs ==
    /\ pc = "makedirs"
    /\ dirExists' = TRUE
    /\ pc' = "open"
    /\ UNCHANGED << inputExists, inputLines, outFile, before, df, chems,
                    species_list, html, error, exitStatus, stdout >>

\* os.makedirs fails (the directory is missing and cannot be created).
MakeDirsFail ==
    /\ pc = "makedirs"
    /\ ~dirExists
    /\ Raise("OSError")
    /\ UNCHANGED << inputExists, inputLines, dirExists, outFile, before, df, chems,
                    species_list, html, stdout >>

\* open(OUTPUT_HTML, 'w', encoding='utf-8'): creates or truncates the file.
OpenOut ==
    /\ pc = "open"
    /\ outFile' = [ exists |-> TRUE, content |-> <<>> ]
    /\ pc' = "write"
    /\ UNCHANGED << inputExists, inputLines, dirExists, before, df, chems,
                    species_list, html, error, exitStatus, stdout >>

\* open fails (no permission): the file is not touched.
OpenFail ==
    /\ pc = "open"
    /\ Raise("OSError")
    /\ UNCHANGED << inputExists, inputLines, dirExists, outFile, before, df, chems,
                    species_list, html, stdout >>

\* f.write(html) and the close at the end of the with block.
WriteOut ==
    /\ pc = "write"
    /\ outFile' = [ exists |-> TRUE, content |-> html ]
    /\ pc' = "print"
    /\ UNCHANGED << inputExists, inputLines, dirExists, before, df, chems,
                    species_list, html, error, exitStatus, stdout >>

\* The write or the flush at close fails (disk full): part of html is on disk.
WriteFail ==
    /\ pc = "write"
    /\ \E k \in WriteFaultPoints(html) :
         outFile' = [ exists |-> TRUE, content |-> SubSeq(html, 1, k) ]
    /\ Raise("OSError")
    /\ UNCHANGED << inputExists, inputLines, dirExists, before, df, chems,
                    species_list, html, stdout >>

\* print(f"Created {OUTPUT_HTML}"); the script ends, exit status 0.
PrintDone ==
    /\ pc = "print"
    /\ stdout' = Append(stdout, "Created network_outputs/index.html")
    /\ exitStatus' = <<0>>
    /\ pc' = "done"
    /\ UNCHANGED << inputExists, inputLines, dirExists, outFile, before, df, chems,
                    species_list, html, error >>

Next ==
    \/ Load
    \/ Normalize
    \/ Vocab
    \/ RenderDoc
    \/ MakeDirs
    \/ MakeDirsFail
    \/ OpenOut
    \/ OpenFail
    \/ WriteOut
    \/ WriteFail
    \/ PrintDone

Spec == Init /\ [][Next]_vars

\* ------------------------------------------------------------ properties
\* How far the run has come.
\* df holds the frame read_csv returned.
Loaded == pc # "load" /\ error \notin { "FileNotFoundError", "ParserError", "EmptyDataError" }
\* df holds the renamed rows with Badges and the PubMedIDs lists.
Normalized == Loaded /\ pc # "normalize"
\* chems and species_list are computed.
VocabDone == Normalized /\ pc # "vocab"
\* html is rendered.
Rendered == VocabDone /\ pc # "render"

\* The category a badge class stands for.
CategoryOf(cls) ==
    CASE cls = BG_SUCCESS   -> "increase"
      [] cls = BG_DANGER    -> "decrease"
      [] cls = BG_SECONDARY -> "other"

\* Badges as the {label, category} pairs of the data model.
Labelled(badges) ==
    [ i \in DOMAIN badges |->
        [ label |-> badges[i].txt, category |-> CategoryOf(badges[i].cls) ] ]

\* The line opens with the comment marker, leading blanks aside.
IsCommentLine(line) ==
    \E i \in DOMAIN line : line[i] = COMMENT /\ \A j \in 1..(i - 1) : line[j] = " "

\* The data lines of the source: neither blank nor a comment line.
DataLines == SelectSeq(inputLines, LAMBDA l : ~IsBlank(l) /\ ~IsCommentLine(l))

\* Where the table rows start in a document.
RowStarts(doc) == { i \in DOMAIN doc : doc[i] = Lit("<tr>") }

\* The option elements of a document.
OptionStarts(doc) == { i \in DOMAIN doc : doc[i] = Lit("<option value=\"") }

\* The pieces of a document that came from a {{ ... }}.
VarTexts(doc) == { doc[i].var : i \in { j \in DOMAIN doc : "var" \in DOMAIN doc[j] } }

\* ---- C1
\* What HTML escaping leaves of a text: no raw <, > or ", and every & opens
\* one of the character references the escaping produces.
CHAR_REFS == { <<"&","a","m","p",";">>, <<"&","l","t",";">>, <<"&","g","t",";">>, <<"&","#","3","4",";">>, <<"&","#","3","9",";">> }

IsEscaped(t) ==
    \A j \in DOMAIN t :
        /\ t[j] \notin { "<", ">", "\"" }
        /\ t[j] = "&" =>
             \E r \in CHAR_REFS :
                 /\ j + Len(r) - 1 <= Len(t)
                 /\ SubSeq(t, j, j + Len(r) - 1) = r

\* C1: every value interpolated into the rendered document (cells, badge
\* labels, PubMed identifiers, option values) is HTML-escaped, so no record
\* content can open or close an element or attribute.
C1_InterpolatedTextEscaped ==
    \A t \in VarTexts(html) : IsEscaped(t)

\* ---- C2
Caffeine == <<"C","a","f","f","e","i","n","e">>
HomoSapiens == <<"H","o","m","o"," ","s","a","p","i","e","n","s">>
ScenarioInput == << LineHeader, LineCaffeine >>
ScenarioRun == inputExists /\ inputLines = ScenarioInput /\ VocabDone

\* What the scenario and the code agree on: one record, its Chemical, Species
\* and PubMedIDs, and the two vocabularies.
ScenarioCommon ==
    /\ Len(df) = 1
    /\ df[1]["Chemical"] = Caffeine
    /\ df[1]["Species"] = HomoSapiens
    /\ df[1]["PubMedIDs"] = << <<"1","2","3","4","5">>, <<"6","7","8","9","0">> >>
    /\ chems = << Caffeine >>
    /\ species_list = << HomoSapiens >>

\* C2 as stated: the scenario row yields the two badges "increases activity"
\* and "increases activity of", both of category increase.
C2_ScenarioTwoBadges ==
    ScenarioRun =>
        /\ ScenarioCommon
        /\ Labelled(df[1]["Badges"]) =
             << [ label |-> <<"i","n","c","r","e","a","s","e","s"," ","a","c","t","i","v","i","t","y">>, category |-> "increase" ],
                [ label |-> <<"i","n","c","r","e","a","s","e","s"," ","a","c","t","i","v","i","t","y"," ","o","f">>, category |-> "increase" ] >>

\* C2 as amended: the ninth field, increases^activity, is the Interaction and
\* stays as it is; the tenth, increases^activity^of, is the only action token,
\* so Badges is the single badge "increases activity of" of category increase.
C2_ScenarioOneBadge ==
    ScenarioRun =>
        /\ ScenarioCommon
        /\ df[1]["Interaction"] = <<"i","n","c","r","e","a","s","e","s","^","a","c","t","i","v","i","t","y">>
        /\ Labelled(df[1]["Badges"]) =
             << [ label |-> <<"i","n","c","r","e","a","s","e","s"," ","a","c","t","i","v","i","t","y"," ","o","f">>, category |-> "increase" ] >>

\* The scenario input has run to its end.
C2_Witness == inputExists /\ inputLines = ScenarioInput /\ pc = "done"

\* ---- C3
\* The action tokens of a row: the non-empty pipe-separated segments.
Tokens(row) == SelectSeq(split(row["Actions"], "|"), LAMBDA a : a # <<>>)

\* The category the rule gives a token: decided by the lowercased characters
\* it opens with, nothing being stripped.
RuleCategory(tok) ==
    LET opens(word) ==
            /\ Len(tok) >= Len(word)
            /\ \A i \in DOMAIN word : LowerChar(tok[i]) = word[i]
    IN  IF opens(INCREASES) THEN "increase"
        ELSE IF opens(DECREASES) THEN "decrease"
        ELSE "other"

\* C3: each non-empty pipe-separated action token gets one badge, whose
\* category is increase when the lowercased token starts with "increases",
\* decrease when it starts with "decreases", other otherwise - whatever the
\* token's case and whatever whitespace leads or trails it.
C3_BadgeCategoryByPrefix ==
    Normalized =>
        \A i \in DOMAIN df :
            /\ Len(df[i]["Badges"]) = Len(Tokens(df[i]))
            /\ \A j \in DOMAIN df[i]["Badges"] :
                 CategoryOf(df[i]["Badges"][j].cls) = RuleCategory(Tokens(df[i])[j])

\* A row with a token not in lower case classified increase and a token with
\* a leading blank before "decreases" classified other.
C3_Witness ==
    /\ Normalized
    /\ \E i \in DOMAIN df :
         /\ \E j \in DOMAIN df[i]["Badges"] :
              /\ Tokens(df[i])[j] # lower(Tokens(df[i])[j])
              /\ df[i]["Badges"][j].cls = BG_SUCCESS
         /\ \E j \in DOMAIN df[i]["Badges"] :
              /\ Tokens(df[i])[j] = <<" ","d","e","c","r","e","a","s","e","s">>
              /\ df[i]["Badges"][j].cls = BG_SECONDARY

\* ---- C4
\* C4: a run, failing or not, ends with the output file either holding the
\* complete rendered document or being as it was before the run.
C4_NoPartialOutput ==
    pc \in Terminal =>
        \/ outFile = before.outFile
        \/ Rendered /\ outFile = [ exists |-> TRUE, content |-> html ]

\* ---- C5
\* C5: with the input file missing the run aborts with a non-zero status
\* before any output step: the output directory and file stay as they were
\* and the confirmation line is not printed.
C5_MissingInputAborts ==
    ~inputExists =>
        /\ pc \in { "load", "failed" }
        /\ pc = "failed" => error = "FileNotFoundError" /\ exitStatus = <<1>>
        /\ dirExists = before.dirExists
        /\ outFile = before.outFile
        /\ stdout = <<>>

\* The run has aborted on a missing input, with an earlier report on disk.
C5_Witness ==
    /\ ~inputExists
    /\ pc = "failed"
    /\ before.outFile = PREVIOUS

\* ---- C6
\* C6: a row whose field count is not 11 is never fatal: the first 11 fields
\* keep their columns, missing ones are empty strings, surplus ones are cut.
C6_FieldCountTolerated ==
    /\ error # "ParserError"
    /\ pc = "normalize" =>
         LET rows == ParsedRows(inputLines)
         IN  /\ Len(df) = Len(rows)
             /\ \A i \in DOMAIN rows :
                  \A j \in DOMAIN FIELD_NAMES :
                      df[i][FIELD_NAMES[j]] =
                          IF j <= Len(rows[i]) THEN fillna(NaValue(rows[i][j])) ELSE <<>>

\* ---- C7
\* The source exists and holds nothing but comment lines (or nothing at all).
ZeroRecordInput ==
    /\ inputExists
    /\ \A i \in DOMAIN inputLines : inputLines[i] # <<>> /\ inputLines[i][1] = COMMENT

\* C7: a source without records is not an error: nothing but a failure of the
\* output steps can end the run early, and a run that ends normally has exit
\* status 0 and has written the whole document, with no table row and no
\* filter option besides the two show-all ones.
C7_EmptyInputNotAnError ==
    ZeroRecordInput =>
        /\ error \in { "", "OSError" }
        /\ pc = "done" =>
             /\ exitStatus = <<0>>
             /\ outFile.exists
             /\ outFile.content = html
             /\ RowStarts(outFile.content) = {}
             /\ OptionStarts(outFile.content) = {}
             /\ VarTexts(outFile.content) = {}
             /\ \E i \in DOMAIN outFile.content :
                  outFile.content[i] = Lit("<option value=\"\">All Chemicals</option>")
             /\ \E i \in DOMAIN outFile.content :
                  outFile.content[i] = Lit("<option value=\"\">All Species</option>")
             /\ \E i \in DOMAIN outFile.content :
                  outFile.content[i] = Lit("<tbody>")
             /\ outFile.content[Len(outFile.content)] =
                  Lit("<script>...</script></body></html>")

\* A source of comment lines only has run to its end.
C7_Witness ==
    /\ ZeroRecordInput
    /\ inputLines # <<>>
    /\ pc = "done"

\* ---- C8
\* C8: a line is skipped exactly when it opens with the comment marker; every
\* other line yields one record holding the line's own field text, so a
\* marker inside a field removes neither the record nor any of its fields.
\* (Stated for sources whose lines have at most 11 fields; an empty or NA
\* cell reads as the empty string.)
C8_OnlyCommentLinesSkipped ==
    ( /\ pc = "normalize"
      /\ \A i \in DOMAIN inputLines : Len(CsvFields(inputLines[i])) <= Len(FIELD_NAMES) )
    =>
        /\ Len(df) = Len(DataLines)
        /\ \A i \in DOMAIN df :
             \A j \in DOMAIN CsvFields(DataLines[i]) :
                 df[i][FIELD_NAMES[j]] = fillna(NaValue(CsvFields(DataLines[i])[j]))

\* ---- C9
\* The k-th smallest member of a set of indices.
Nth(set, k) == CHOOSE p \in set : Cardinality({ q \in set : q < p }) = k - 1

\* C9: the rendered document has one table row per data line of the source
\* (every line that is neither blank nor a comment line), in input order.
C9_OneRowPerDataLine ==
    Rendered =>
        /\ Cardinality(RowStarts(html)) = Len(DataLines)
        /\ Cardinality(RowStarts(html)) = Len(df)
        /\ \A k \in DOMAIN df :
             html[Nth(RowStarts(html), k) + 2] = Var(df[k]["Chemical"])

\* ---- C10
\* a comes before b in codepoint-lexicographic order.
RECURSIVE Precedes(_, _)
Precedes(a, b) ==
    IF b = <<>> THEN FALSE
    ELSE IF a = <<>> THEN TRUE
    ELSE IF Head(a) = Head(b) THEN Precedes(Tail(a), Tail(b))
    ELSE CodePoint(Head(a)) < CodePoint(Head(b))

IsVocabularyOf(voc, name) ==
    /\ { voc[i] : i \in DOMAIN voc } = { df[i][name] : i \in DOMAIN df }
    /\ \A i \in DOMAIN voc : \A j \in DOMAIN voc : i < j => Precedes(voc[i], voc[j])
    /\ (\E i \in DOMAIN df : df[i][name] = <<>>) => voc # <<>> /\ voc[1] = <<>>

\* C10: chems and species_list are exactly the values Chemical and Species
\* take over the records, in strictly ascending codepoint order (so without
\* duplicates), the empty string included when a record has it.
C10_VocabularySortedDistinct ==
    VocabDone =>
        /\ IsVocabularyOf(chems, "Chemical")
        /\ IsVocabularyOf(species_list, "Species")

\* Two records share the empty Chemical, which is listed once.
C10_Witness ==
    /\ VocabDone
    /\ Len(df) = 2
    /\ df[1]["Chemical"] = <<>>
    /\ df[2]["Chemical"] = <<>>
    /\ chems = << <<>> >>

====
